---- MODULE Spec2Model ----
(***************************************************************************)
(* The in-memory event queue of the progress service                       *)
(* (EventQueueService): enqueue, the interval-driven drain cycle, the      *)
(* per-item persist-then-publish attempt with bounded retry, and the       *)
(* shutdown drain.                                                         *)
(*                                                                         *)
(* The service runs on the Node.js event loop.  Every action below is one  *)
(* run-to-completion step: a public method up to its first await, a timer  *)
(* callback, or the continuation that runs when an awaited store or broker *)
(* call settles, together with the promise continuations it resolves.      *)
(***************************************************************************)
EXTENDS Integers, Sequences, FiniteSets, TLC

\* ---------------------------------------------------------------------
\* Program constants
\* ---------------------------------------------------------------------
BATCH_SIZE == 10

MAX_RETRIES == 3

\* The document count of isUserDoneSufficientQuestions (`count >= 50`).
SUFFICIENT_QUESTIONS == 50

\* ---------------------------------------------------------------------
\* Bounds of the exploration
\* ---------------------------------------------------------------------
\* Spec: number of enqueue calls and of failing store / broker calls.
MaxEvents == 2

MaxFaults == 4

\* BacklogSpec: number of fresh items in the buffer besides the re-queued one.
BacklogLen == 10

\* LiveSpec: number of enqueue calls and of failing store / broker calls.
LiveEvents == 2

LiveFaults == 4

\* DrainSpec: size of the largest buffer drained.
DrainItems == 25

\* ApiSpec: number of requests that reach the queue.
ApiEvents == 2

\* CallerSpec: number of processEvent calls and of failing store / broker
\* calls.
CallerEvents == 2

CallerFaults == 4

\* ShutdownSpec: number of items in the buffer when the timer starts.
ShutdownItems == 1

\* UserSpec: number of enqueue calls.
UserEvents == 2

\* ConsumerSpec: number of broker messages that reach the queue.
ConsumerEvents == 2

\* ReadySpec: number of documents of the user in the store when the
\* service starts, number of enqueue calls and of failing store / broker
\* calls.
StoredBefore == 49

ReadyEvents == 2

ReadyFaults == 1

\* StoredSpec: number of enqueueEvent calls and of processEvent calls of
\* the store-backed variant.
StoredEntries == 2

StoredCalls == 2

\* TimerSpec: number of enqueue calls, number of failing store / broker
\* calls, and the number of intervals up to which startProcessing is
\* followed.
TimerEvents == 2

TimerFaults == 1

MaxTimers == 2

\* Event types of the requests: two of the EventType values.
Events == {"QUIZ_ATTEMPT", "VIDEO_WATCH"}

\* A value that is not there (undefined).
Absent == "absent"

\* Values of Date.now(), in milliseconds (shortened).
T0 == 41

Times == {T0, T0 + 1}

\* The event object of a request of the given type whose payload carries
\* the user id in its direct field.
Payload(eventType) ==
    [eventType |-> eventType,
     eventData |-> [userId |-> "direct-user", user_id |-> Absent]]

VARIABLES
    inMemoryQueue,       \* the buffer: sequence of QueuedEvent
    isProcessing,        \* the draining / idle flag
    processingInterval,  \* "null" or "timer": the handle of setInterval
    activeTimers,        \* number of intervals active in the event loop
    eventCounter,        \* counter used for id generation
    running,             \* callers whose processBatch() has not finished
    inflight,            \* items of extracted batches whose attempt is pending
    store,               \* the documents saved in the Event collection
    published,           \* messages acknowledged by the broker on "events"
    stopPc,              \* position of onModuleDestroy
    stopMark,            \* value of eventCounter when onModuleDestroy was called
    attempts,            \* per item: number of processSingleEvent calls
    completed,           \* items whose attempt succeeded
    dropped,             \* items dropped after the last retry
    cycles,              \* number of processBatch calls made; negative in the
                         \* specifications that do not count them
    settled,             \* how the promises of the drain have settled
    response,            \* what the last call of the HTTP layer returned
    receipts,            \* the receipts returned by processEvent so far
    logged,              \* messages logged at error level on the request path
    eventQueueModel,     \* store-backed variant: the EventQueue collection
    eventModel,          \* store-backed variant: the Event collection
    calls,               \* store-backed variant: the processEvent calls made
    objectIds,           \* store-backed variant: number of _id values given out
    enqLeft,             \* enqueue calls the exploration still allows
    faultsLeft           \* failing store / broker calls it still allows

vars == <<inMemoryQueue, isProcessing, processingInterval, activeTimers,
          eventCounter,
          running, inflight, store, published, stopPc, stopMark,
          attempts, completed, dropped, cycles, settled, response, receipts,
          logged, eventQueueModel, eventModel, calls, objectIds, enqLeft,
          faultsLeft>>

\* What the store-backed variant of the queue service owns.
storedVars == <<eventQueueModel, eventModel, calls, objectIds>>

\* What the request path owns besides the queue.
apiVars == <<response, receipts, logged>>

\* The queue service's fields and what is recorded about its drain.
queueVars == <<inMemoryQueue, isProcessing, processingInterval, activeTimers,
               eventCounter,
               running, inflight, store, published, stopPc, stopMark,
               attempts, completed, dropped, cycles, settled>>

Min(a, b) == IF a < b THEN a ELSE b

Range(s) == {s[k] : k \in 1..Len(s)}

Ids(s) == {s[k].id.n : k \in 1..Len(s)}

\* ---------------------------------------------------------------------
\* Pure pieces of the code
\* ---------------------------------------------------------------------
\* Decimal digits of a number, as template literals render it.
DigitChar(d) == <<"0", "1", "2", "3", "4", "5", "6", "7", "8", "9">>[d + 1]

RECURSIVE Digits(_)
Digits(n) ==
    IF n < 10 THEN <<DigitChar(n)>>
    ELSE Digits(n \div 10) \o <<DigitChar(n % 10)>>

\* Variant: the id is built from the clock alone.
EventIdClockOnly(id) ==
    <<"e", "v", "t", "_">> \o Digits(id.ms) \o <<"_">> \o Digits(id.ms)

\* `evt_${Date.now()}_${++this.eventCounter}`: the id string, as a sequence
\* of characters, of the id whose clock part is id.ms and whose counter part
\* is id.n.
EventId(id) ==
    <<"e", "v", "t", "_">> \o Digits(id.ms) \o <<"_">> \o Digits(id.n)

\* Variant: the item starts with one retry used.
NewQueuedEventRetried(event, userId, now, counter) ==
    [id |-> [ms |-> now, n |-> counter],
     event |-> [eventType |-> event.eventType, eventData |-> event.eventData,
                userId |-> userId],
     retryCount |-> 1]

\* enqueueEvent: the QueuedEvent built for the call; `event` is
\* { ...event, userId }.
NewQueuedEvent(event, userId, now, counter) ==
    [id |-> [ms |-> now, n |-> counter],
     event |-> [eventType |-> event.eventType, eventData |-> event.eventData,
                userId |-> userId],
     retryCount |-> 0]

\* JavaScript truthiness of a string that may be missing.
Truthy(v) == v # Absent /\ v # ""

\* extractUserId: eventData?.userId || eventData?.user?.id || 'unknown'
\* (user_id stands for eventData.user.id).
ExtractUserId(eventData) ==
    IF Truthy(eventData.userId) THEN eventData.userId
    ELSE IF Truthy(eventData.user_id) THEN eventData.user_id
    ELSE "unknown"

\* Variants of the splice: one element short, and starting at index 1.
SpliceTakenShort(q) == SubSeq(q, 1, Min(BATCH_SIZE - 1, Len(q)))

SpliceTakenSkipFirst(q) == SubSeq(q, 2, Min(BATCH_SIZE, Len(q)))

\* Variant: slice instead of splice, the array keeps the batch.
SpliceLeftKeep(q) == q

\* inMemoryQueue.splice(0, BATCH_SIZE): the removed elements ...
SpliceTaken(q) == SubSeq(q, 1, Min(BATCH_SIZE, Len(q)))

\* ... and what the array holds afterwards.
SpliceLeft(q) == SubSeq(q, Min(BATCH_SIZE, Len(q)) + 1, Len(q))

\* Variant: the callback does not test the flag.
TickGuardNoFlag(processing, q) == Len(q) > 0

\* The interval callback's condition.
TickGuard(processing, q) == ~processing /\ Len(q) > 0

\* Variants of the retry test: one retry more, one retry less.
CanRetryInclusive(item) == item.retryCount <= MAX_RETRIES

CanRetryShort(item) == item.retryCount < MAX_RETRIES - 1

\* The retry test of the catch block.
CanRetry(item) == item.retryCount < MAX_RETRIES

\* Variant: the item is pushed back without counting the failure.
RequeueSameCount(q, item) == Append(q, item)

\* Variant: unshift instead of push.
RequeueFront(q, item) == <<[item EXCEPT !.retryCount = @ + 1]>> \o q

\* queuedEvent.retryCount++ ; inMemoryQueue.push(queuedEvent)
Requeue(q, item) == Append(q, [item EXCEPT !.retryCount = @ + 1])

\* Variant: the publish is awaited before the store write.
FirstStepPublish == "publish"

\* processSingleEvent awaits the store write first, the publish second.
FirstStep == "save"

\* Variant: the document is keyed by the item, a retry overwrites it.
DocIdPerItem(item) == <<item.id.n, 0>>

\* The _id of the document built by `new this.eventModel(...)` for one
\* attempt: fresh for every attempt of every item.
DocId(item) == <<item.id.n, item.retryCount>>

\* The document built by `new this.eventModel({...})`.
EventDocument(item) ==
    [_id |-> DocId(item), eventType |-> item.event.eventType,
     eventData |-> item.event.eventData,
     userId |-> ExtractUserId(item.event.eventData)]

\* The message handed to kafkaService.sendMessage("events", ...).
KafkaMessage(item) ==
    [topic |-> "events", eventId |-> DocId(item), src |-> item.id.n,
     eventType |-> item.event.eventType,
     userId |-> ExtractUserId(item.event.eventData),
     eventData |-> item.event.eventData]

\* ---------------------------------------------------------------------
\* Initial state: after construction
\* ---------------------------------------------------------------------
InitQueue ==
    /\ inMemoryQueue = <<>>
    /\ isProcessing = FALSE
    /\ processingInterval = "null"
    /\ activeTimers = 0
    /\ eventCounter = 0
    /\ running = {}
    /\ inflight = {}
    /\ store = {}
    /\ published = {}
    /\ stopPc = "idle"
    /\ stopMark = 0
    /\ attempts = <<>>
    /\ completed = {}
    /\ dropped = {}
    /\ cycles = -1
    /\ settled = {}
    /\ response = [kind |-> "none"]
    /\ receipts = {}
    /\ logged = {}
    /\ eventQueueModel = {}
    /\ eventModel = {}
    /\ calls = <<>>
    /\ objectIds = 0

Init ==
    /\ InitQueue
    /\ enqLeft = MaxEvents
    /\ faultsLeft = MaxFaults

\* ---------------------------------------------------------------------
\* Operations
\* ---------------------------------------------------------------------
\* Variant: enqueueEvent waits for the drain cycle to end.
EnqueueWhenIdle(event, userId, now, fault) ==
    /\ ~isProcessing
    /\ enqLeft > 0
    /\ eventCounter' = eventCounter + 1
    /\ inMemoryQueue' =
           Append(inMemoryQueue,
                  NewQueuedEvent(event, userId, now, eventCounter + 1))
    /\ attempts' = Append(attempts, 0)
    /\ enqLeft' = enqLeft - 1
    /\ UNCHANGED <<cycles, isProcessing, processingInterval, activeTimers,
                   running, inflight, store, published, stopPc, stopMark, completed, dropped,
                   settled, faultsLeft>>

\* The body of enqueueEvent(event, userId), called when Date.now() is
\* `now`.  `fault` is where the try block throws: "none", "push" (the
\* counter has been incremented, nothing is pushed) or "log" (the item has
\* been pushed and logger.info throws).
Enqueue(event, userId, now, fault) ==
    /\ enqLeft > 0
    /\ eventCounter' = eventCounter + 1
    /\ inMemoryQueue' =
           IF fault = "push" THEN inMemoryQueue
           ELSE Append(inMemoryQueue,
                       NewQueuedEvent(event, userId, now, eventCounter + 1))
    /\ attempts' = Append(attempts, 0)
    /\ enqLeft' = enqLeft - 1
    /\ UNCHANGED <<cycles, isProcessing, processingInterval, activeTimers,
                   running, inflight, store, published, stopPc, stopMark, completed, dropped,
                   settled, faultsLeft>>

\* enqueueEvent(event, userId) called directly, returning normally.
EnqueueEvent(event, userId, now) ==
    /\ Enqueue(event, userId, now, "none")
    /\ UNCHANGED <<apiVars, storedVars>>

\* Variant: startProcessing has no early return.
StartCreatesAlways(interval) == TRUE

\* startProcessing calls setInterval unless the handle is set.
StartCreates(interval) == interval = "null"

\* startProcessing: a call with the timer already set returns early.
StartProcessing ==
    /\ processingInterval' =
           IF StartCreates(processingInterval) THEN "timer"
           ELSE processingInterval
    /\ activeTimers' =
           IF StartCreates(processingInterval) THEN activeTimers + 1
           ELSE activeTimers
    /\ UNCHANGED <<cycles, inMemoryQueue, isProcessing, eventCounter, running,
                   inflight, store, published, stopPc, stopMark, attempts,
                   completed, dropped, settled, enqLeft, faultsLeft>>
    /\ UNCHANGED <<apiVars, storedVars>>

\* onModuleInit -> startProcessing.  The framework calls the lifecycle
\* hooks in order, so it is not called once onModuleDestroy has been.
OnModuleInit ==
    /\ stopPc = "idle"
    /\ StartProcessing

\* processBatch up to its await: set the flag, splice the batch off the
\* buffer, and start processSingleEvent (up to `await eventDocument.save()`)
\* for every item of the batch.
ProcessBatchStart(by) ==
    /\ isProcessing' = TRUE
    /\ inMemoryQueue' = SpliceLeft(inMemoryQueue)
    /\ inflight' = inflight \cup
           {[item |-> it, by |-> by, phase |-> FirstStep] :
                it \in Range(SpliceTaken(inMemoryQueue))}
    /\ running' = running \cup {by}
    /\ attempts' = [k \in 1..Len(attempts) |->
                       IF k \in Ids(SpliceTaken(inMemoryQueue))
                       THEN attempts[k] + 1 ELSE attempts[k]]
    /\ cycles' = IF cycles < 0 THEN cycles ELSE cycles + 1

\* The setInterval callback.
TimerTick ==
    /\ processingInterval = "timer"
    /\ TickGuard(isProcessing, inMemoryQueue)
    /\ ProcessBatchStart("timer")
    /\ UNCHANGED <<processingInterval, activeTimers, eventCounter, store, published,
                   stopPc, stopMark, completed, dropped, settled, enqLeft,
                   faultsLeft>>
    /\ UNCHANGED <<apiVars, storedVars>>

\* Variant: Promise.all with a rethrowing attempt, the batch ends with the
\* first attempt that settles.
BatchEndFirstSettled(f, rest) ==
    /\ isProcessing' = FALSE
    /\ running' = running \ {f.by}

\* The end of processBatch, reached when the attempt f was the last pending
\* one of its batch (Promise.allSettled resolves): the finally block.
\* `rest` is the set of attempts still pending after f.
BatchEnd(f, rest) ==
    IF \E g \in rest : g.by = f.by
    THEN UNCHANGED <<isProcessing, running>>
    ELSE /\ isProcessing' = FALSE
         /\ running' = running \ {f.by}

\* Variant: the catch block of processSingleEvent rethrows.
AttemptOutcomeRethrow(ok) == IF ok THEN "fulfilled" ELSE "rejected"

\* How the promise of processSingleEvent settles: the try block covers the
\* whole body and the catch block returns normally.
AttemptOutcome(ok) == "fulfilled"

\* How the promise of processBatch settles: Promise.allSettled fulfils
\* whatever the attempts did, and the catch block returns normally.
BatchOutcome(outcomes) == "fulfilled"

\* The promises that settle when the attempt f ends (ok: without error).
Settles(f, rest, ok) ==
    settled' = settled \cup {<<"processSingleEvent", AttemptOutcome(ok)>>}
        \cup (IF \E g \in rest : g.by = f.by THEN {}
              ELSE {<<"processBatch", BatchOutcome({AttemptOutcome(ok)})>>})

\* The catch block of processSingleEvent for the pending attempt f.
RetryOrDrop(f) ==
    /\ inflight' = inflight \ {f}
    /\ IF CanRetry(f.item)
       THEN /\ inMemoryQueue' = Requeue(inMemoryQueue, f.item)
            /\ dropped' = dropped
       ELSE /\ inMemoryQueue' = inMemoryQueue
            /\ dropped' = dropped \cup {f.item.id.n}
    /\ BatchEnd(f, inflight \ {f})
    /\ Settles(f, inflight \ {f}, FALSE)

\* `await eventDocument.save()` resolves: build and send the message.
SaveOk(f) ==
    /\ f \in inflight
    /\ f.phase = "save"
    /\ store' = store \cup {EventDocument(f.item)}
    /\ inflight' = (inflight \ {f}) \cup {[f EXCEPT !.phase = "publish"]}
    /\ UNCHANGED <<cycles, inMemoryQueue, isProcessing, processingInterval,
                   activeTimers,
                   eventCounter, running, published, stopPc, stopMark,
                   attempts, completed, dropped, settled, enqLeft, faultsLeft>>
    /\ UNCHANGED <<apiVars, storedVars>>

\* `await eventDocument.save()` rejects.
SaveFail(f) ==
    /\ f \in inflight
    /\ f.phase = "save"
    /\ faultsLeft > 0
    /\ faultsLeft' = faultsLeft - 1
    /\ RetryOrDrop(f)
    /\ UNCHANGED <<cycles, processingInterval, activeTimers, eventCounter, store, published,
                   stopPc, stopMark, attempts, completed, enqLeft>>
    /\ UNCHANGED <<apiVars, storedVars>>

\* `await this.kafkaService.sendMessage('events', ...)` resolves.
PublishOk(f) ==
    /\ f \in inflight
    /\ f.phase = "publish"
    /\ published' = published \cup {KafkaMessage(f.item)}
    /\ inflight' = inflight \ {f}
    /\ completed' = completed \cup {f.item.id.n}
    /\ BatchEnd(f, inflight \ {f})
    /\ Settles(f, inflight \ {f}, TRUE)
    /\ UNCHANGED <<cycles, inMemoryQueue, processingInterval, activeTimers, eventCounter,
                   store, stopPc, stopMark, attempts, dropped, enqLeft,
                   faultsLeft>>
    /\ UNCHANGED <<apiVars, storedVars>>

\* `await this.kafkaService.sendMessage('events', ...)` rejects.
PublishFail(f) ==
    /\ f \in inflight
    /\ f.phase = "publish"
    /\ faultsLeft > 0
    /\ faultsLeft' = faultsLeft - 1
    /\ RetryOrDrop(f)
    /\ UNCHANGED <<cycles, processingInterval, activeTimers, eventCounter, store, published,
                   stopPc, stopMark, attempts, completed, enqLeft>>
    /\ UNCHANGED <<apiVars, storedVars>>

\* The while loop of processRemainingEvents: start the next batch, or
\* return.
RemainingLoop ==
    IF Len(inMemoryQueue) > 0
    THEN /\ ProcessBatchStart("shutdown")
         /\ stopPc' = "await"
    ELSE /\ stopPc' = "returned"
         /\ UNCHANGED <<inMemoryQueue, isProcessing, running, inflight,
                        attempts, cycles>>

\* Variant: stopProcessing leaves the interval running.
StopProcessingKeeps(interval) == interval

\* stopProcessing: clearInterval and reset the handle.
StopProcessing(interval) == "null"

\* The intervals left in the event loop by stopProcessing: clearInterval is
\* called if the handle is set.
ClearInterval(interval, active) ==
    IF interval # "null" THEN active - 1 ELSE active

\* stopProcessing called on its own.
StopProcessingCall ==
    /\ processingInterval' = StopProcessing(processingInterval)
    /\ activeTimers' = ClearInterval(processingInterval, activeTimers)
    /\ UNCHANGED <<cycles, inMemoryQueue, isProcessing, eventCounter, running,
                   inflight, store, published, stopPc, stopMark, attempts,
                   completed, dropped, settled, enqLeft, faultsLeft>>
    /\ UNCHANGED <<apiVars, storedVars>>

\* onModuleDestroy: stopProcessing, then processRemainingEvents up to its
\* first await.
OnModuleDestroy ==
    /\ stopPc = "idle"
    /\ processingInterval' = StopProcessing(processingInterval)
    /\ activeTimers' = ClearInterval(processingInterval, activeTimers)
    /\ stopMark' = eventCounter
    /\ RemainingLoop
    /\ UNCHANGED <<eventCounter, store, published, completed, dropped,
                   settled, enqLeft, faultsLeft>>
    /\ UNCHANGED <<apiVars, storedVars>>

\* `await this.processBatch()` of the shutdown loop resumes: the loop test
\* again.
ShutdownContinue ==
    /\ stopPc = "await"
    /\ "shutdown" \notin running
    /\ RemainingLoop
    /\ UNCHANGED <<processingInterval, activeTimers, eventCounter, store, published,
                   stopMark, completed, dropped, settled, enqLeft,
                   faultsLeft>>
    /\ UNCHANGED <<apiVars, storedVars>>

\* ---------------------------------------------------------------------
\* The request path: EventsController and EventsService
\* ---------------------------------------------------------------------
\* `return queuedEvent.id`
EnqueueReturn(item) == EventId(item.id)

\* The receipt built by EventsService.processEvent.
Receipt(queueId) ==
    [kind |-> "receipt", queueId |-> queueId, status |-> "accepted",
     message |-> "Event has been queued for processing"]

\* The error a request ends with when enqueueEvent throws: it is rethrown
\* by the service and not caught by the controller.
ServerError == [kind |-> "error", status |-> 500, message |-> "thrown"]

\* The BadRequestException of ingestEvent.
BadRequest ==
    [kind |-> "error", status |-> 400,
     message |-> "User ID is required. Please provide x-user-id header."]

\* Variant: the catch block of processEvent answers with a receipt.
ServiceResultSilent(fault, queueId) == Receipt(queueId)

\* What processEvent returns or throws, given where enqueueEvent threw.
ServiceResult(fault, queueId) ==
    IF fault = "none" THEN Receipt(queueId) ELSE ServerError

\* EventsService.processEvent(event): it calls enqueueEvent(event), with no
\* user id, and builds the receipt from the id that call returns.
ProcessEvent(event, now, fault) ==
    /\ Enqueue(event, Absent, now, fault)
    /\ LET item == NewQueuedEvent(event, Absent, now, eventCounter + 1)
           result == ServiceResult(fault, EnqueueReturn(item))
       IN  /\ response' = result
           /\ receipts' = IF result.kind = "receipt"
                          THEN receipts \cup {result} ELSE receipts
    /\ logged' = IF fault = "none" THEN logged
                 ELSE logged \cup {"Failed to enqueue event",
                                   "Failed to queue event for processing"}
    /\ UNCHANGED storedVars

\* Variant: the header test is missing.
RejectsHeaderNever(header) == FALSE

\* `if (!userId)` for the value of req.headers['x-user-id'].
RejectsHeader(header) == ~Truthy(header)

\* EventsController.ingestEvent: POST /events.  The service's processEvent
\* takes the event only, the user id passed as second argument is ignored.
IngestEvent(header, event, now, fault) ==
    IF RejectsHeader(header)
    THEN /\ response' = BadRequest
         /\ logged' = logged \cup {"User ID not provided in request headers"}
         /\ UNCHANGED <<queueVars, receipts, enqLeft, faultsLeft,
                     storedVars>>
    ELSE ProcessEvent(event, now, fault)

\* Variant: the items of the batch in flight are counted too.
QueueStatsWithBatch ==
    [total |-> Len(inMemoryQueue) + Cardinality(inflight),
     isProcessing |-> isProcessing]

\* getQueueStats
QueueStats == [total |-> Len(inMemoryQueue), isProcessing |-> isProcessing]

\* EventsController.getStats -> EventsService.getProcessingStats ->
\* getQueueStats.
GetStats ==
    /\ response' = [kind |-> "stats", body |-> QueueStats]
    /\ UNCHANGED <<queueVars, receipts, logged, enqLeft, faultsLeft,
                     storedVars>>

Next ==
    \/ EnqueueEvent(Payload("QUIZ_ATTEMPT"), "user-1", T0)
    \/ OnModuleInit
    \/ TimerTick
    \/ \E f \in inflight : SaveOk(f)
    \/ \E f \in inflight : SaveFail(f)
    \/ \E f \in inflight : PublishOk(f)
    \/ \E f \in inflight : PublishFail(f)
    \/ OnModuleDestroy
    \/ ShutdownContinue

Spec == Init /\ [][Next]_vars

\* The item of the k-th enqueueEvent call, not yet attempted.
FreshItem(k) == NewQueuedEvent(Payload("QUIZ_ATTEMPT"), "user-1", T0, k)

\* ---------------------------------------------------------------------
\* BacklogSpec: the timer's drain cycles on a buffer longer than one batch,
\* with a store and a broker that do not fail.  It starts in a state reached by
\* enqueueEvent, onModuleInit and one timer tick, then pos - 1 further
\* enqueueEvent calls, the failure of the first attempt (which re-queues
\* item 1 at position pos), the end of that batch, and the remaining
\* enqueueEvent calls.
\* ---------------------------------------------------------------------
BacklogQueue(pos) ==
    [k \in 1..(BacklogLen + 1) |->
        IF k < pos THEN FreshItem(k + 1)
        ELSE IF k = pos
             THEN [FreshItem(1) EXCEPT !.retryCount = 1]
             ELSE FreshItem(k)]

\* Positions at which the re-queued item can be.
BacklogPositions == 1..(BacklogLen + 1)

BacklogInit ==
    /\ \E pos \in BacklogPositions : inMemoryQueue = BacklogQueue(pos)
    /\ isProcessing = FALSE
    /\ processingInterval = "timer"
    /\ activeTimers = 1
    /\ eventCounter = BacklogLen + 1
    /\ running = {}
    /\ inflight = {}
    /\ store = {}
    /\ published = {}
    /\ stopPc = "idle"
    /\ stopMark = 0
    /\ attempts = [k \in 1..(BacklogLen + 1) |-> IF k = 1 THEN 1 ELSE 0]
    /\ completed = {}
    /\ dropped = {}
    /\ cycles = -1
    /\ settled = {<<"processSingleEvent", "fulfilled">>,
                  <<"processBatch", "fulfilled">>}
    /\ response = [kind |-> "none"]
    /\ receipts = {}
    /\ logged = {}
    /\ eventQueueModel = {}
    /\ eventModel = {}
    /\ calls = <<>>
    /\ objectIds = 0
    /\ enqLeft = 0
    /\ faultsLeft = 0

BacklogNext ==
    \/ TimerTick
    \/ \E f \in inflight : SaveOk(f)
    \/ \E f \in inflight : PublishOk(f)

BacklogSpec == BacklogInit /\ [][BacklogNext]_vars

\* ---------------------------------------------------------------------
\* DrainSpec: the timer drains a buffer of N items that were enqueued before
\* onModuleInit; no further enqueue, a store and a broker that do not fail,
\* a timer that fires and calls that settle.
\* ---------------------------------------------------------------------
DrainSizes == {1, BATCH_SIZE, BATCH_SIZE + 1, DrainItems}

DrainInit ==
    /\ \E n \in DrainSizes :
          /\ inMemoryQueue = [k \in 1..n |-> FreshItem(k)]
          /\ eventCounter = n
          /\ attempts = [k \in 1..n |-> 0]
    /\ isProcessing = FALSE
    /\ processingInterval = "timer"
    /\ activeTimers = 1
    /\ running = {}
    /\ inflight = {}
    /\ store = {}
    /\ published = {}
    /\ stopPc = "idle"
    /\ stopMark = 0
    /\ completed = {}
    /\ dropped = {}
    /\ cycles = 0
    /\ settled = {}
    /\ response = [kind |-> "none"]
    /\ receipts = {}
    /\ logged = {}
    /\ eventQueueModel = {}
    /\ eventModel = {}
    /\ calls = <<>>
    /\ objectIds = 0
    /\ enqLeft = 0
    /\ faultsLeft = 0

SaveSettles == \E f \in inflight : SaveOk(f)

PublishSettles == \E f \in inflight : PublishOk(f)

DrainNext ==
    \/ TimerTick
    \/ SaveSettles
    \/ PublishSettles

DrainSpec ==
    /\ DrainInit
    /\ [][DrainNext]_vars
    /\ WF_vars(TimerTick)
    /\ WF_vars(SaveSettles)
    /\ WF_vars(PublishSettles)

\* ---------------------------------------------------------------------
\* ApiSpec: requests on POST /events and GET /events/stats while the timer
\* drains the queue, with a store and a broker that do not fail.
\* ---------------------------------------------------------------------
\* Values of the x-user-id header: missing, empty, present.
Headers == {Absent, "", "user-1"}

\* Where the try block of enqueueEvent can throw.
EnqueueFaults == {"none", "push", "log"}

ApiInit ==
    /\ InitQueue
    /\ enqLeft = ApiEvents
    /\ faultsLeft = 0

Ingest ==
    \E header \in Headers, t \in Events, fault \in EnqueueFaults :
        IngestEvent(header, Payload(t), T0, fault)

ApiNext ==
    \/ Ingest
    \/ GetStats
    \/ OnModuleInit
    \/ TimerTick
    \/ \E f \in inflight : SaveOk(f)
    \/ \E f \in inflight : PublishOk(f)

ApiSpec == ApiInit /\ [][ApiNext]_vars

\* ---------------------------------------------------------------------
\* CallerSpec: callers of EventsService.processEvent while the timer drains
\* the queue, with a store and a broker that can fail.
\* ---------------------------------------------------------------------
CallerInit ==
    /\ InitQueue
    /\ enqLeft = CallerEvents
    /\ faultsLeft = CallerFaults

Accept == \E now \in Times : ProcessEvent(Payload("QUIZ_ATTEMPT"), now, "none")

CallerNext ==
    \/ Accept
    \/ OnModuleInit
    \/ TimerTick
    \/ \E f \in inflight : SaveOk(f)
    \/ \E f \in inflight : SaveFail(f)
    \/ \E f \in inflight : PublishOk(f)
    \/ \E f \in inflight : PublishFail(f)

CallerSpec == CallerInit /\ [][CallerNext]_vars

\* ---------------------------------------------------------------------
\* UserSpec: enqueueEvent called with payloads that carry the user id in the
\* direct field, in the nested field, in both or in neither, with and
\* without a request-level user id, and drained by the timer.
\* ---------------------------------------------------------------------
\* Values of eventData.userId and of eventData.user.id.
DirectIds == {Absent, "", "direct-user"}

NestedIds == {Absent, "", "nested-user"}

\* Values of the userId argument of enqueueEvent.
RequestIds == {Absent, "request-user"}

UserInit ==
    /\ InitQueue
    /\ enqLeft = UserEvents
    /\ faultsLeft = 0

EnqueueAny ==
    \E d \in DirectIds, n \in NestedIds, u \in RequestIds :
        EnqueueEvent([eventType |-> "QUIZ_ATTEMPT",
                      eventData |-> [userId |-> d, user_id |-> n]], u, T0)

UserNext ==
    \/ EnqueueAny
    \/ OnModuleInit
    \/ TimerTick
    \/ SaveSettles
    \/ PublishSettles

UserSpec == UserInit /\ [][UserNext]_vars

\* ---------------------------------------------------------------------
\* LiveSpec: the queue with a timer that fires whenever its callback can
\* start a batch, store and broker calls that settle, and continuations
\* that run.
\* ---------------------------------------------------------------------
LiveInit ==
    /\ InitQueue
    /\ enqLeft = LiveEvents
    /\ faultsLeft = LiveFaults

Settle ==
    \E f \in inflight : SaveOk(f) \/ SaveFail(f) \/ PublishOk(f) \/ PublishFail(f)

LiveNext ==
    \/ EnqueueEvent(Payload("QUIZ_ATTEMPT"), "user-1", T0)
    \/ OnModuleInit
    \/ TimerTick
    \/ Settle
    \/ OnModuleDestroy
    \/ ShutdownContinue

LiveSpec ==
    /\ LiveInit
    /\ [][LiveNext]_vars
    /\ WF_vars(TimerTick)
    /\ WF_vars(Settle)
    /\ WF_vars(ShutdownContinue)

\* ---------------------------------------------------------------------
\* ShutdownSpec: a buffer filled before onModuleInit is drained by the
\* timer, onModuleDestroy is called at some point, and nothing is enqueued
\* any more.  Store and broker calls settle, each as a success or as a
\* failure: the failures allowed are as many as there can be attempts.
\* Continuations run.
\* ---------------------------------------------------------------------
ShutdownInit ==
    /\ inMemoryQueue = [k \in 1..ShutdownItems |-> FreshItem(k)]
    /\ isProcessing = FALSE
    /\ processingInterval = "timer"
    /\ activeTimers = 1
    /\ eventCounter = ShutdownItems
    /\ running = {}
    /\ inflight = {}
    /\ store = {}
    /\ published = {}
    /\ stopPc = "idle"
    /\ stopMark = 0
    /\ attempts = [k \in 1..ShutdownItems |-> 0]
    /\ completed = {}
    /\ dropped = {}
    /\ cycles = 0
    /\ settled = {}
    /\ response = [kind |-> "none"]
    /\ receipts = {}
    /\ logged = {}
    /\ eventQueueModel = {}
    /\ eventModel = {}
    /\ calls = <<>>
    /\ objectIds = 0
    /\ enqLeft = 0
    /\ faultsLeft = ShutdownItems * (MAX_RETRIES + 1)

ShutdownNext ==
    \/ TimerTick
    \/ Settle
    \/ OnModuleDestroy
    \/ ShutdownContinue

ShutdownSpec ==
    /\ ShutdownInit
    /\ [][ShutdownNext]_vars
    /\ WF_vars(Settle)
    /\ WF_vars(ShutdownContinue)

\* ---------------------------------------------------------------------
\* ConsumerSpec: EventsKafkaConsumerService, the handler of the topic
\* dualmatch:question, while the timer drains the queue.
\* ---------------------------------------------------------------------
\* message.value of a message without value.
NoValue == "null value"

\* The texts of message.value.toString(): not JSON, the empty buffer, the
\* JSON literal null, a JSON number, an object without fields and a
\* DualMatchQuestionMessage.
Texts ==
    {"invalid json", "", "null", "5", "{}",
     "{\"userId\":\"user123\",\"questionId\":\"q123\"}"}

MessageValues == {NoValue} \cup Texts

\* JSON.parse(text): it throws a SyntaxError, or returns null, a number or
\* an object.
JsonParse(text) ==
    CASE text = "null" -> [threw |-> FALSE, type |-> "null"]
      [] text = "5" -> [threw |-> FALSE, type |-> "number"]
      [] text = "{}" ->
             [threw |-> FALSE, type |-> "object",
              userId |-> Absent, questionId |-> Absent]
      [] text = "{\"userId\":\"user123\",\"questionId\":\"q123\"}" ->
             [threw |-> FALSE, type |-> "object",
              userId |-> "user123", questionId |-> "q123"]
      [] OTHER -> [threw |-> TRUE]

\* `if (!message.value)`: null is falsy, a Buffer is truthy also when empty.
HasNoValue(value) == value = NoValue

\* messageValue.<field>: reading a property of null throws a TypeError, of a
\* number it gives undefined.
ReadThrows(parsed) == parsed.type = "null"

Field(parsed, name) ==
    IF parsed.type # "object" THEN Absent
    ELSE IF name = "userId" THEN parsed.userId ELSE parsed.questionId

\* The Event the handler builds from the parsed message: the user id is not
\* part of eventData.
DualMatchEvent(parsed) ==
    [eventType |-> "QUESTION_ATTEMPT",
     eventData |-> [userId |-> Absent, user_id |-> Absent,
                    questionId |-> Field(parsed, "questionId")]]

\* Where the try block of the handler leaves to its catch block before it
\* calls processEvent: "none" if it does not.
ThrowsBeforeCall(value) ==
    IF JsonParse(value).threw THEN "parse"
    ELSE IF ReadThrows(JsonParse(value)) THEN "read"
    ELSE "none"

\* Variant: the catch block rethrows what processEvent threw.
HandledRethrows(made) ==
    IF made # <<>> /\ made[1].result = "error"
    THEN [kind |-> "rejected", calls |-> made]
    ELSE [kind |-> "resolved", calls |-> made]

\* What the handler's promise settles with: both the try block and the
\* catch block end with Promise.resolve(), also after processEvent threw.
Handled(made) == [kind |-> "resolved", calls |-> made]

\* The handler passed to consumeMessages, for one message.  processEvent
\* is EventsService.processEvent, which takes the event only.
ConsumeMessage(value, now, fault) ==
    IF HasNoValue(value)
    THEN /\ response' = Handled(<<>>)
         /\ logged' = logged \cup {"Received message with no value"}
         /\ UNCHANGED <<queueVars, receipts, enqLeft, faultsLeft,
                     storedVars>>
    ELSE IF ThrowsBeforeCall(value) # "none"
    THEN /\ response' = Handled(<<>>)
         /\ logged' =
                logged \cup {"Error processing dualmatch:question message"}
         /\ UNCHANGED <<queueVars, receipts, enqLeft, faultsLeft,
                     storedVars>>
    ELSE LET parsed == JsonParse(value)
             event == DualMatchEvent(parsed)
             item == NewQueuedEvent(event, Absent, now, eventCounter + 1)
             result == ServiceResult(fault, EnqueueReturn(item))
         IN  /\ Enqueue(event, Absent, now, fault)
             /\ response' =
                    Handled(<<[event |-> event,
                               userId |-> Field(parsed, "userId"),
                               result |-> result.kind]>>)
             /\ receipts' = IF result.kind = "receipt"
                            THEN receipts \cup {result} ELSE receipts
             /\ logged' =
                    IF fault = "none"
                    THEN logged \cup
                             {"Successfully processed dualmatch:question event"}
                    ELSE logged \cup
                             {"Failed to enqueue event",
                              "Failed to queue event for processing",
                              "Error processing dualmatch:question message"}
             /\ UNCHANGED storedVars

ConsumerInit ==
    /\ InitQueue
    /\ enqLeft = ConsumerEvents
    /\ faultsLeft = 0

Consume ==
    \E value \in MessageValues, fault \in EnqueueFaults :
        ConsumeMessage(value, T0, fault)

ConsumerNext ==
    \/ Consume
    \/ OnModuleInit
    \/ TimerTick
    \/ SaveSettles
    \/ PublishSettles

ConsumerSpec == ConsumerInit /\ [][ConsumerNext]_vars

\* ---------------------------------------------------------------------
\* ReadySpec: EventsService.isUserDoneSufficientQuestions, asked while the
\* timer drains the queue into a store that already holds documents.
\* ---------------------------------------------------------------------
\* Variant: more than the threshold is required.
IsPersonalizationReadyAbove(count) == count > SUFFICIENT_QUESTIONS

\* `count >= 50`
IsPersonalizationReady(count) == count >= SUFFICIENT_QUESTIONS

\* eventModel.find({ userId }).countDocuments()
CountDocuments(userId) == Cardinality({d \in store : d.userId = userId})

\* isUserDoneSufficientQuestions(userId); the count is taken by the store
\* in one step.
IsUserDoneSufficientQuestions(userId) ==
    /\ response' =
           [kind |-> "ready", userId |-> userId,
            isPersonalizationReady |->
                IsPersonalizationReady(CountDocuments(userId))]
    /\ UNCHANGED <<queueVars, receipts, logged, enqLeft, faultsLeft,
                     storedVars>>

\* A document written by an earlier run of the service.
EarlierDocument(k, userId) ==
    [_id |-> <<0, k>>, eventType |-> "QUIZ_ATTEMPT",
     eventData |-> [userId |-> userId, user_id |-> Absent],
     userId |-> userId]

ReadyUsers == {"direct-user", "unknown"}

ReadyInit ==
    /\ inMemoryQueue = <<>>
    /\ isProcessing = FALSE
    /\ processingInterval = "timer"
    /\ activeTimers = 1
    /\ eventCounter = 0
    /\ running = {}
    /\ inflight = {}
    /\ store = {EarlierDocument(k, "direct-user") : k \in 1..StoredBefore}
                   \cup {EarlierDocument(StoredBefore + 1, "other-user")}
    /\ published = {}
    /\ stopPc = "idle"
    /\ stopMark = 0
    /\ attempts = <<>>
    /\ completed = {}
    /\ dropped = {}
    /\ cycles = -1
    /\ settled = {}
    /\ response = [kind |-> "none"]
    /\ receipts = {}
    /\ logged = {}
    /\ eventQueueModel = {}
    /\ eventModel = {}
    /\ calls = <<>>
    /\ objectIds = 0
    /\ enqLeft = ReadyEvents
    /\ faultsLeft = ReadyFaults

EnqueueForUser ==
    \E d \in {Absent, "direct-user"} :
        EnqueueEvent([eventType |-> "QUIZ_ATTEMPT",
                      eventData |-> [userId |-> d, user_id |-> Absent]],
                     "user-1", T0)

AskReady == \E userId \in ReadyUsers : IsUserDoneSufficientQuestions(userId)

ReadyNext ==
    \/ EnqueueForUser
    \/ AskReady
    \/ TimerTick
    \/ Settle

ReadySpec == ReadyInit /\ [][ReadyNext]_vars

\* ---------------------------------------------------------------------
\* StoredSpec: the store-backed variant of the queue service.  The queue
\* is the EventQueue collection; processEvent(eventId) is asynchronous and
\* calls can overlap.
\* ---------------------------------------------------------------------
\* enqueueEvent of the variant: `await queuedEvent.save()` for a new entry,
\* which gets a fresh _id; when the save fails nothing is stored.
StoredEnqueueEvent(event, ok) ==
    /\ enqLeft > 0
    /\ enqLeft' = enqLeft - 1
    /\ objectIds' = objectIds + 1
    /\ eventQueueModel' =
           IF ok
           THEN eventQueueModel \cup
                    {[_id |-> objectIds + 1, eventType |-> event.eventType,
                      userId |-> ExtractUserId(event.eventData)]}
           ELSE eventQueueModel
    /\ UNCHANGED <<eventModel, calls>>
    /\ UNCHANGED <<queueVars, apiVars, faultsLeft>>

\* processEvent(eventId) is called: it awaits findById.
StoredProcessEvent(eventId) ==
    /\ Len(calls) < StoredCalls
    /\ calls' = Append(calls, [eventId |-> eventId, pc |-> "find",
                               found |-> {}, saved |-> {}, deleted |-> FALSE])
    /\ UNCHANGED <<eventQueueModel, eventModel, objectIds>>
    /\ UNCHANGED <<queueVars, apiVars, enqLeft, faultsLeft>>

\* Variant: an error of eventDocument.save() is swallowed.
PcAfterIgnoringSave(pc, ok) ==
    CASE pc = "find" -> IF ok THEN "save" ELSE "Event not found"
      [] pc = "save" -> "delete"
      [] pc = "delete" -> IF ok THEN "resolved" ELSE "rejected"

\* Where a call continues after an await: the statements of the try block
\* in order, the first failure ends the call through the catch block.
PcAfter(pc, ok) ==
    CASE pc = "find" -> IF ok THEN "save" ELSE "Event not found"
      [] pc = "save" -> IF ok THEN "delete" ELSE "rejected"
      [] pc = "delete" -> IF ok THEN "resolved" ELSE "rejected"

\* findById resolves with the entry or with null.
FindReturns(c) ==
    /\ c \in 1..Len(calls)
    /\ calls[c].pc = "find"
    /\ LET found == {e \in eventQueueModel : e._id = calls[c].eventId}
       IN  calls' = [calls EXCEPT ![c].found = found,
                                  ![c].pc = PcAfter("find", found # {})]
    /\ UNCHANGED <<eventQueueModel, eventModel, objectIds>>
    /\ UNCHANGED <<queueVars, apiVars, enqLeft, faultsLeft>>

\* `await eventDocument.save()` settles: a new document with a fresh _id.
SaveReturns(c, ok) ==
    /\ c \in 1..Len(calls)
    /\ calls[c].pc = "save"
    /\ objectIds' = objectIds + 1
    /\ eventModel' =
           IF ok
           THEN eventModel \cup
                    {[_id |-> objectIds + 1, eventType |-> e.eventType,
                      userId |-> e.userId] : e \in calls[c].found}
           ELSE eventModel
    /\ calls' = [calls EXCEPT ![c].saved = IF ok THEN {objectIds + 1} ELSE {},
                              ![c].pc = PcAfter("save", ok)]
    /\ UNCHANGED eventQueueModel
    /\ UNCHANGED <<queueVars, apiVars, enqLeft, faultsLeft>>

\* `await this.eventQueueModel.deleteOne({ _id: eventId })` settles.
DeleteReturns(c, ok) ==
    /\ c \in 1..Len(calls)
    /\ calls[c].pc = "delete"
    /\ eventQueueModel' =
           IF ok
           THEN {e \in eventQueueModel : e._id # calls[c].eventId}
           ELSE eventQueueModel
    /\ calls' = [calls EXCEPT ![c].deleted = ok,
                              ![c].pc = PcAfter("delete", ok)]
    /\ UNCHANGED <<eventModel, objectIds>>
    /\ UNCHANGED <<queueVars, apiVars, enqLeft, faultsLeft>>

StoredInit ==
    /\ InitQueue
    /\ enqLeft = StoredEntries
    /\ faultsLeft = 0

StoredNext ==
    \/ \E ok \in BOOLEAN : StoredEnqueueEvent(Payload("QUIZ_ATTEMPT"), ok)
    \/ \E eventId \in 1..(objectIds + 1) : StoredProcessEvent(eventId)
    \/ \E c \in 1..Len(calls) : FindReturns(c)
    \/ \E c \in 1..Len(calls), ok \in BOOLEAN : SaveReturns(c, ok)
    \/ \E c \in 1..Len(calls), ok \in BOOLEAN : DeleteReturns(c, ok)

StoredSpec == StoredInit /\ [][StoredNext]_vars

\* The timer under arbitrary sequences of startProcessing and
\* stopProcessing calls, with batches in between.
TimerInit ==
    /\ InitQueue
    /\ enqLeft = TimerEvents
    /\ faultsLeft = TimerFaults

StartCall ==
    /\ activeTimers < MaxTimers
    /\ StartProcessing

TimerNext ==
    \/ StartCall
    \/ StopProcessingCall
    \/ EnqueueEvent(Payload("QUIZ_ATTEMPT"), "user-1", T0)
    \/ TimerTick
    \/ Settle

TimerSpec ==
    /\ TimerInit
    /\ [][TimerNext]_vars

\* ---------------------------------------------------------------------
\* Properties
\* ---------------------------------------------------------------------
\* The _id values of the stored documents.
StoredIds == {d._id : d \in store}

\* Item i has a document in the store.
Persisted(i) == \E d \in store : d._id[1] = i

InBuffer(i) == i \in Ids(inMemoryQueue)

InFlight(i) == \E f \in inflight : f.item.id.n = i

\* A step that extracts a batch: some item gets a new attempt.
IsExtraction == Len(attempts') = Len(attempts) /\ attempts' # attempts

\* The items whose attempt the step starts.
TakenItems == {f.item : f \in inflight' \ inflight}

\* C1: when onModuleDestroy has returned, every item enqueued before it was
\* called has been persisted or dropped, and none of them is in the buffer
\* (then or later).
NoLossOnShutdown ==
    stopPc = "returned" =>
        \A i \in 1..stopMark :
            (Persisted(i) \/ i \in dropped) /\ ~InBuffer(i)

\* C2: the pending attempts all belong to one batch: no batch is extracted
\* while attempts of an earlier batch are pending.
NoOverlappingBatches == \A f, g \in inflight : f.by = g.by

\* C3: every accepted item is in exactly one place (buffer, batch in
\* flight, completed, dropped), and an enqueue adds exactly one entry to the
\* buffer and leaves the batch in flight alone.
Places(i) ==
    Cardinality({k \in 1..Len(inMemoryQueue) : inMemoryQueue[k].id.n = i})
    + Cardinality({f \in inflight : f.item.id.n = i})
    + (IF i \in completed THEN 1 ELSE 0)
    + (IF i \in dropped THEN 1 ELSE 0)

ExactlyOnePlace == \A i \in 1..eventCounter : Places(i) = 1

NoLostOrDuplicatedEntries ==
    /\ []ExactlyOnePlace
    /\ [][eventCounter' # eventCounter =>
            /\ Len(inMemoryQueue') = Len(inMemoryQueue) + 1
            /\ inflight' = inflight]_vars

\* C3 witness: an item was enqueued while a batch is in flight.
EnqueuedDuringBatch ==
    \E f \in inflight : \E k \in 1..Len(inMemoryQueue) :
        /\ inMemoryQueue[k].id.n > f.item.id.n
        /\ inMemoryQueue[k].retryCount = 0

\* C4: no item is attempted more than MAX_RETRIES + 1 times, and a dropped
\* item is neither in the buffer nor in a batch.
BoundedAttempts ==
    \A i \in 1..eventCounter :
        /\ attempts[i] <= MAX_RETRIES + 1
        /\ i \in dropped => ~InBuffer(i) /\ ~InFlight(i)

\* C4 witness: an item has been dropped after its last allowed attempt.
DroppedAfterLastAttempt ==
    \E i \in dropped : attempts[i] = MAX_RETRIES + 1

\* C5: an item whose every attempt fails while the timer keeps firing is
\* eventually dropped; a dropped item has had exactly MAX_RETRIES + 1
\* attempts and is never in the buffer or in a batch again.
AlwaysFailingItemDropped ==
    /\ [](\A i \in dropped :
            attempts[i] = MAX_RETRIES + 1 /\ ~InBuffer(i) /\ ~InFlight(i))
    /\ \A i \in 1..LiveEvents :
          (/\ <>(eventCounter >= i)
           /\ <>[](processingInterval = "timer")
           /\ [](i \notin completed))
          => <>(i \in dropped)

\* C5 witness: an item has been dropped while the timer is running.
DroppedWhileTimerRuns ==
    /\ processingInterval = "timer"
    /\ \E i \in dropped : attempts[i] = MAX_RETRIES + 1

\* C6: a failing attempt of an item with retryCount < MAX_RETRIES appends
\* the item, with the same id and record and retryCount + 1, to the back of
\* the buffer; otherwise the buffer is unchanged; the items already in the
\* buffer are untouched either way.
RetryStep ==
    [][faultsLeft' # faultsLeft =>
        \E f \in inflight :
            /\ inflight' = inflight \ {f}
            /\ IF f.item.retryCount < MAX_RETRIES
               THEN inMemoryQueue' =
                        Append(inMemoryQueue,
                               [id |-> f.item.id, event |-> f.item.event,
                                retryCount |-> f.item.retryCount + 1])
               ELSE inMemoryQueue' = inMemoryQueue]_vars

\* C6 witness: a failed item has been re-queued behind an item that was
\* already waiting.
RequeuedBehindWaiting ==
    /\ Len(inMemoryQueue) >= 2
    /\ inMemoryQueue[1].retryCount = 0
    /\ inMemoryQueue[Len(inMemoryQueue)].retryCount > 0

\* C7: a drain cycle takes exactly the first min(BATCH_SIZE, length) items
\* of the buffer and leaves the others in their order.
FifoBatchSelection ==
    [][IsExtraction =>
        LET n == Min(BATCH_SIZE, Len(inMemoryQueue)) IN
        /\ TakenItems = {inMemoryQueue[k] : k \in 1..n}
        /\ Cardinality(TakenItems) = n
        /\ inMemoryQueue' = SubSeq(inMemoryQueue, n + 1, Len(inMemoryQueue))]_vars

\* C7 witness: a full batch has just been taken from a longer buffer.
FullBatchTaken ==
    /\ Cardinality(inflight) = BATCH_SIZE
    /\ \A f \in inflight : f.phase = FirstStep
    /\ Len(inMemoryQueue) > 0

\* C8: a message is published only for a document that is in the store,
\* carries that document's id, and a publish is pending only for a saved
\* document.
PersistThenPublish ==
    /\ \A m \in published :
          /\ m.eventId \in StoredIds
          /\ m.eventId[1] = m.src
          /\ m.topic = "events"
    /\ \A f \in inflight : f.phase = "publish" => DocId(f.item) \in StoredIds

\* C8 witness: a message has been published and the store write of some
\* item's first attempt has failed.
PublishedAndStoreFailure ==
    /\ published # {}
    /\ \E i \in 1..eventCounter :
          /\ attempts[i] >= 2
          /\ <<i, 0>> \notin StoredIds
          /\ \A m \in published : m.eventId # <<i, 0>>

\* C9: isProcessing is true exactly when a processBatch call is running.
IsProcessingReflectsDrain == isProcessing <=> (running # {})

\* C10 as claimed: a drain cycle takes every re-queued item of the buffer.
RetriedSelectedNextCycle ==
    [][IsExtraction =>
        \A k \in 1..Len(inMemoryQueue) :
            inMemoryQueue[k].retryCount > 0 =>
                inMemoryQueue[k] \in TakenItems]_vars

\* C10 amended: a drain cycle takes every re-queued item that is among the
\* first BATCH_SIZE items of the buffer.
RetriedSelectedWhenInReach ==
    [][IsExtraction =>
        \A k \in 1..Len(inMemoryQueue) :
            (inMemoryQueue[k].retryCount > 0 /\ k <= BATCH_SIZE) =>
                inMemoryQueue[k] \in TakenItems]_vars

\* C10 witness: a re-queued item is being attempted again.
RetriedItemInFlight == \E f \in inflight : f.item.retryCount > 0

\* The documents saved and the messages published for item i.
DocsOf(i) == {d \in store : d._id[1] = i}

MsgsOf(i) == {m \in published : m.src = i}

CeilDiv(a, b) == (a + b - 1) \div b

\* Every item has one document and one message, and nothing is pending.
DrainedOnce ==
    /\ inMemoryQueue = <<>>
    /\ inflight = {}
    /\ \A i \in 1..eventCounter :
          Cardinality(DocsOf(i)) = 1 /\ Cardinality(MsgsOf(i)) = 1

\* C11: with N items, no enqueue and no failure, the buffer is empty exactly
\* from drain cycle ceil(N / BATCH_SIZE) on, no further cycle starts, and in
\* the end every item has been persisted once and published once.
DrainProgress ==
    /\ []((inMemoryQueue = <<>>) <=>
            (cycles = CeilDiv(eventCounter, BATCH_SIZE)))
    /\ [](cycles <= CeilDiv(eventCounter, BATCH_SIZE))
    /\ []((inMemoryQueue = <<>> /\ inflight = {}) => DrainedOnce)
    /\ <>[]DrainedOnce

\* C11 witness: DrainItems items have been drained in
\* ceil(DrainItems / BATCH_SIZE) cycles.
DrainedAll ==
    /\ eventCounter = DrainItems
    /\ cycles = CeilDiv(DrainItems, BATCH_SIZE)
    /\ completed = 1..DrainItems
    /\ inMemoryQueue = <<>>

\* C12: once onModuleDestroy has called stopProcessing the timer handle is
\* cleared for good, and every batch extracted from then on is extracted by
\* the loop of processRemainingEvents, none by the timer callback.
TimerCancelledFirst ==
    /\ [](stopPc # "idle" => processingInterval = "null")
    /\ [][stopPc # "idle" /\ IsExtraction =>
            /\ inflight' \ inflight # {}
            /\ \A f \in inflight' \ inflight : f.by = "shutdown"]_vars

\* C12 witness: the timer has been cancelled after it had started a batch,
\* and the shutdown loop has extracted a batch of its own.
ShutdownBatchAfterCancel ==
    /\ stopPc = "await"
    /\ processingInterval = "null"
    /\ \E f \in inflight : f.by = "shutdown"
    /\ \E i \in 1..eventCounter : attempts[i] >= 2

\* The characters "0" to "9".
DigitChars == {DigitChar(d) : d \in 0..9}

\* s has the form evt_<digits>_<digits>.
IsEvtId(s) ==
    \E i \in 6..(Len(s) - 1) :
        /\ SubSeq(s, 1, 4) = <<"e", "v", "t", "_">>
        /\ s[i] = "_"
        /\ \A k \in 5..(i - 1) : s[k] \in DigitChars
        /\ \A k \in (i + 1)..Len(s) : s[k] \in DigitChars

\* The step is a call of enqueueEvent that returns an id to processEvent.
EnqueueReturns == eventCounter' # eventCounter /\ response'.kind = "receipt"

\* The id strings of the items in the buffer and in the batches in flight.
HeldIds ==
    {EventId(inMemoryQueue[k].id) : k \in 1..Len(inMemoryQueue)}
        \cup {EventId(f.item.id) : f \in inflight}

\* C13: the counter only grows, by one per call; every id returned has the
\* form evt_<digits>_<digits> and differs from every id returned before and
\* from the id of every item held, whatever the clock reads and whatever the
\* drain does in between.
UniqueIds ==
    /\ [][eventCounter' >= eventCounter]_vars
    /\ [][EnqueueReturns =>
            /\ eventCounter' = eventCounter + 1
            /\ IsEvtId(response'.queueId)
            /\ response'.queueId \notin {r.queueId : r \in receipts}
            /\ response'.queueId \notin HeldIds]_vars
    /\ [](\A r \in receipts : IsEvtId(r.queueId))

\* C13 witness: two ids have been returned for calls made in the same
\* millisecond, the second call coming between a drain cycle that took the
\* first item and the re-queue of that item.
SameMillisecondIds ==
    /\ Cardinality(receipts) = 2
    /\ Len(inMemoryQueue) = 2
    /\ inMemoryQueue[1].id.ms = inMemoryQueue[2].id.ms
    /\ inMemoryQueue[1].id.n > inMemoryQueue[2].id.n
    /\ inMemoryQueue[2].retryCount = 1

\* C14: enqueueEvent can be called and returns in every state, also while
\* store or broker calls of a drain cycle are pending, and the step neither
\* waits for nor touches those calls, the store or the broker.
EnqueueNeverWaits ==
    /\ [](enqLeft > 0 =>
            ENABLED EnqueueEvent(Payload("QUIZ_ATTEMPT"), "user-1", T0))
    /\ [][eventCounter' # eventCounter =>
            /\ inMemoryQueue'[Len(inMemoryQueue')].id.n = eventCounter'
            /\ inflight' = inflight
            /\ running' = running
            /\ store' = store
            /\ published' = published]_vars

\* C14 witness: an item was enqueued while the broker call of an earlier
\* item is pending.
EnqueuedWhilePublishPending ==
    /\ isProcessing
    /\ Len(inMemoryQueue) >= 1
    /\ inMemoryQueue[Len(inMemoryQueue)].id.n = eventCounter
    /\ inMemoryQueue[Len(inMemoryQueue)].retryCount = 0
    /\ \E f \in inflight :
          f.phase = "publish" /\ f.item.id.n < eventCounter

\* C15: a call of enqueueEvent that returns appends one item with retryCount
\* 0 and the returned id at the back of the buffer, which grows by one; the
\* items already there keep their order and retry counts, and the batch in
\* flight and isProcessing are unchanged.
EnqueueEffect ==
    [][EnqueueReturns =>
        LET n == Len(inMemoryQueue) IN
        /\ Len(inMemoryQueue') = n + 1
        /\ SubSeq(inMemoryQueue', 1, n) = inMemoryQueue
        /\ inMemoryQueue'[n + 1].retryCount = 0
        /\ EventId(inMemoryQueue'[n + 1].id) = response'.queueId
        /\ inMemoryQueue'[n + 1].id.n = eventCounter'
        /\ inflight' = inflight
        /\ isProcessing' = isProcessing]_vars

\* C15 witness: the last call appended its item behind a re-queued one and
\* returned that item's id.
AppendedBehindRequeued ==
    /\ Len(inMemoryQueue) = 2
    /\ inMemoryQueue[1].retryCount >= 1
    /\ inMemoryQueue[2].retryCount = 0
    /\ response = Receipt(EventId(inMemoryQueue[2].id))

\* The step is a call of getQueueStats whose result differs from the last
\* response.
StatsReturns == response' # response /\ response'.kind = "stats"

\* C16: getQueueStats returns the length of the buffer as total (0, with
\* isProcessing false, on a queue that has seen no call) and the current
\* flag, and changes nothing: buffer, counter, flag and timer stay as they
\* are.
StatsConsistency ==
    /\ [][StatsReturns =>
            /\ response'.body.total = Len(inMemoryQueue)
            /\ response'.body.isProcessing = isProcessing
            /\ UNCHANGED <<inMemoryQueue, eventCounter, isProcessing,
                           processingInterval, inflight>>]_vars
    /\ [][StatsReturns /\ eventCounter = 0 =>
            response'.body = [total |-> 0, isProcessing |-> FALSE]]_vars

\* C16 witness: the statistics were read while a batch was in flight and
\* another item was waiting in the buffer.
StatsDuringBatch ==
    /\ response.kind = "stats"
    /\ response.body = [total |-> 1, isProcessing |-> TRUE]
    /\ inflight # {}
    /\ Len(inMemoryQueue) = 1

\* C17: the promises of processSingleEvent and of processBatch never
\* reject; a failing store or broker call, a re-queue or a drop changes
\* neither the receipts returned nor anything else on the request path; and
\* processEvent can still be called, and accepts, after any of them.
FailuresInvisible ==
    /\ [](\A o \in settled : o[2] = "fulfilled")
    /\ [][faultsLeft' # faultsLeft =>
            /\ receipts' = receipts
            /\ response' = response
            /\ logged' = logged]_vars
    /\ [](logged = {})
    /\ [](enqLeft > 0 => ENABLED Accept)
    /\ [][eventCounter' # eventCounter => response'.status = "accepted"]_vars

\* C17 witness: an item has been dropped after its last attempt, its batch
\* has ended, and both callers hold their receipts.
DroppedWithReceipt ==
    /\ dropped = {1}
    /\ <<"processBatch", "fulfilled">> \in settled
    /\ Cardinality(receipts) = 2
    /\ Len(inMemoryQueue) = 1
    /\ response = Receipt(EventId(inMemoryQueue[1].id))

\* C18: processEvent returns a receipt exactly when enqueueEvent returned:
\* the receipt has status "accepted" and the id enqueueEvent returned, which
\* is the id of the item appended; when enqueueEvent throws, the error is
\* logged and rethrown and no receipt is returned.
ReceiptReflectsAcceptance ==
    /\ [][\A t \in Events, fault \in EnqueueFaults :
            ProcessEvent(Payload(t), T0, fault) =>
                IF fault = "none"
                THEN /\ response'.kind = "receipt"
                     /\ response'.status = "accepted"
                     /\ response'.queueId =
                            EventId([ms |-> T0, n |-> eventCounter'])
                     /\ receipts' = receipts \cup {response'}
                ELSE /\ response'.kind = "error"
                     /\ receipts' = receipts
                     /\ "Failed to queue event for processing" \in logged']_vars
    /\ [][receipts' # receipts =>
            /\ receipts' \ receipts = {response'}
            /\ response'.status = "accepted"
            /\ Len(inMemoryQueue') = Len(inMemoryQueue) + 1
            /\ response'.queueId =
                   EventId(inMemoryQueue'[Len(inMemoryQueue')].id)]_vars

\* C18 witness: one call was accepted and a later one ended with the error
\* thrown by enqueueEvent, logged by the service.
ThrownAfterAccepted ==
    /\ response = ServerError
    /\ Cardinality(receipts) = 1
    /\ eventCounter = 2
    /\ "Failed to queue event for processing" \in logged

ResolvesUser(u, event) ==
    /\ Truthy(u)
    /\ Truthy(event.eventData.userId) => u = event.eventData.userId
    /\ (~Truthy(event.eventData.userId) /\ Truthy(event.eventData.user_id))
           => u = event.eventData.user_id
    /\ u = "unknown" =>
           /\ ~Truthy(event.eventData.userId)
           /\ ~Truthy(event.eventData.user_id)
           /\ ~Truthy(event.userId)

\* C20: the userId of every document written and of every message
\* published for an item is a correct resolution of the item's payload and
\* request-level user id.
UserIdResolution ==
    [][/\ \A d \in store' \ store :
             \E f \in inflight :
                 d._id = DocId(f.item) /\ ResolvesUser(d.userId, f.item.event)
       /\ \A m \in published' \ published :
             \E f \in inflight :
                 /\ m.eventId = DocId(f.item)
                 /\ ResolvesUser(m.userId, f.item.event)]_vars

\* The step starts a batch from the timer callback.
TimerExtraction ==
    IsExtraction /\ \E f \in inflight' \ inflight : f.by = "timer"

\* C23: the timer callback starts a drain cycle only when isProcessing is
\* false and the buffer is not empty; a tick in any other state is no step
\* at all: buffer, batch in flight, flag, counter and retry counts stay as
\* they are.
TickGuardRespected ==
    /\ [][TimerExtraction =>
            /\ ~isProcessing
            /\ Len(inMemoryQueue) > 0
            /\ processingInterval = "timer"]_vars
    /\ []((isProcessing \/ inMemoryQueue = <<>>) => ~ENABLED TimerTick)

\* C23 witness: the timer is active while a batch is in flight and an item
\* waits in the buffer, so that a tick finds isProcessing true.
TickWhileDraining ==
    /\ processingInterval = "timer"
    /\ isProcessing
    /\ inflight # {}
    /\ Len(inMemoryQueue) >= 1
    /\ stopPc = "idle"

\* C24: a drain cycle starts the attempts of all items of its batch at
\* once; whatever happened to the other items, a pending store or broker
\* call of an item can succeed, and an attempt that ends takes no other
\* attempt with it; processBatch ends only when no attempt of its batch is
\* pending.
BatchIndependence ==
    /\ [][IsExtraction =>
            /\ Cardinality(inflight' \ inflight) =
                   Min(BATCH_SIZE, Len(inMemoryQueue))
            /\ \A f \in inflight' \ inflight : f.phase = "save"]_vars
    /\ [](\A f \in inflight :
            /\ f.phase = "save" => ENABLED SaveOk(f)
            /\ f.phase = "publish" => ENABLED PublishOk(f))
    /\ [][\A f \in inflight \ inflight' :
            \A g \in inflight \ {f} : g \in inflight']_vars
    /\ [](\A f \in inflight : f.by \in running)

\* C24 witness: of a batch of two items the first has failed and is back in
\* the buffer while the broker call of the second is pending.
OneFailedOtherPending ==
    /\ attempts = <<1, 1>>
    /\ Len(inMemoryQueue) = 1
    /\ inMemoryQueue[1].id.n = 1
    /\ inMemoryQueue[1].retryCount = 1
    /\ \E f \in inflight : f.item.id.n = 2 /\ f.phase = "publish"

\* C27: the broker holds at most one "events" message per item; a message
\* exists exactly for the items whose attempt succeeded, and such an item is
\* never in the buffer or in a batch again and gets no further attempt.
AtMostOnePublish ==
    /\ [](\A i \in 1..eventCounter :
            /\ Cardinality(MsgsOf(i)) <= 1
            /\ (MsgsOf(i) # {}) <=> (i \in completed)
            /\ i \in completed => ~InBuffer(i) /\ ~InFlight(i))
    /\ [][\A i \in completed : attempts'[i] = attempts[i]]_vars

\* C27 witness: an item was published by its third attempt, after two
\* failures.
PublishedOnRetry ==
    \E i \in completed :
        /\ attempts[i] = 3
        /\ Cardinality(MsgsOf(i)) = 1

\* The step is a store write that succeeds.
SaveSucceeds ==
    \E f \in inflight :
        /\ f.phase = "save"
        /\ f \notin inflight'
        /\ [f EXCEPT !.phase = "publish"] \in inflight'

\* C28: every store write that succeeds creates a document of its own, also
\* when it is a retry for an item that already has one; an item has at most
\* as many documents as attempts, so at most MAX_RETRIES + 1, and has more
\* than one only after a failed attempt; a dropped item can have documents.
StoreWritesNotDeduplicated ==
    /\ [][SaveSucceeds =>
            /\ Cardinality(store') = Cardinality(store) + 1
            /\ store \subseteq store']_vars
    /\ [][store' # store => SaveSucceeds]_vars
    /\ [](\A i \in 1..eventCounter :
            /\ Cardinality(DocsOf(i)) <= attempts[i]
            /\ Cardinality(DocsOf(i)) <= MAX_RETRIES + 1
            /\ Cardinality(DocsOf(i)) > 1 => attempts[i] > 1
            /\ i \in completed => DocsOf(i) # {})

\* C28 witness: an item has been dropped after the publish failed in each
\* of its attempts; every attempt left a document in the store.
DroppedAlthoughPersisted ==
    \E i \in dropped : Cardinality(DocsOf(i)) = MAX_RETRIES + 1

\* C29: every item in the buffer or in a batch has a retryCount between 0
\* and MAX_RETRIES, equal to the number of its attempts that have failed:
\* all of its attempts for an item in the buffer, all but the pending one
\* for an item in a batch.
RetryCountRange ==
    /\ \A k \in 1..Len(inMemoryQueue) :
          /\ inMemoryQueue[k].retryCount \in 0..MAX_RETRIES
          /\ inMemoryQueue[k].retryCount = attempts[inMemoryQueue[k].id.n]
    /\ \A f \in inflight :
          /\ f.item.retryCount \in 0..MAX_RETRIES
          /\ f.item.retryCount = attempts[f.item.id.n] - 1

\* C29 witness: an item is in the buffer with its last retry to come.
LastRetryWaiting ==
    \E k \in 1..Len(inMemoryQueue) :
        inMemoryQueue[k].retryCount = MAX_RETRIES

\* C26: once onModuleDestroy waits in its drain loop it returns, whatever
\* the store and the broker answer, as long as they answer; the number of
\* drain cycles is bounded by the number of attempts the items can have.
ShutdownTerminates ==
    /\ [](cycles <= eventCounter * (MAX_RETRIES + 1))
    /\ [](stopPc = "await" => <>(stopPc = "returned"))
    /\ [][stopPc = "returned" => stopPc' = "returned"]_vars

\* C26 witness: onModuleDestroy has returned after every store write
\* failed: all items are dropped and the store is empty.
ReturnedAfterAllFailed ==
    /\ stopPc = "returned"
    /\ eventCounter = ShutdownItems
    /\ dropped = 1..ShutdownItems
    /\ store = {}
    /\ \E i \in 1..ShutdownItems : stopMark >= i /\ attempts[i] = MAX_RETRIES + 1

\* C30: whatever start and stop calls were made, at most one interval is
\* active and it is the one the handle holds; a start while the timer is
\* active and a stop while none is change nothing.
SingleTimer ==
    /\ activeTimers <= 1
    /\ (activeTimers = 1) <=> (processingInterval = "timer")
    /\ processingInterval = "timer" =>
           ~ENABLED (StartProcessing /\ vars' # vars)
    /\ processingInterval = "null" =>
           ~ENABLED (StopProcessingCall /\ vars' # vars)

\* C30 witness: the timer has been stopped after it had started a batch
\* that is still in flight, and an earlier batch has completed.
StoppedDuringBatch ==
    /\ processingInterval = "null"
    /\ activeTimers = 0
    /\ completed # {}
    /\ \E f \in inflight : f.by = "timer"

\* The message whose value is a DualMatchQuestionMessage of user123.
QuestionText == "{\"userId\":\"user123\",\"questionId\":\"q123\"}"

\* The handler has resolved after exactly one processEvent call, made with a
\* QUESTION_ATTEMPT event and the user id of the message.
CalledOnce(value) ==
    /\ response'.kind = "resolved"
    /\ Len(response'.calls) = 1
    /\ response'.calls[1].event.eventType = "QUESTION_ATTEMPT"
    /\ response'.calls[1].userId =
           (IF value = QuestionText THEN "user123" ELSE Absent)
    /\ value = QuestionText =>
           response'.calls[1].event.eventData.questionId = "q123"
    /\ eventCounter' = eventCounter + 1

\* The handler has resolved without a processEvent call and without a
\* change of the queue.
NotCalled ==
    /\ response'.kind = "resolved"
    /\ response'.calls = <<>>
    /\ UNCHANGED queueVars

\* C21 as claimed: the handler calls processEvent exactly once for every
\* message whose value JSON.parse accepts, not at all for a message
\* without value, and resolves in every case.
ConsumedOncePerParsable ==
    [][\A value \in MessageValues, fault \in EnqueueFaults :
          ConsumeMessage(value, T0, fault) =>
              /\ response'.kind = "resolved"
              /\ value = NoValue => NotCalled
              /\ (value # NoValue /\ ~JsonParse(value).threw) =>
                     CalledOnce(value)]_vars

\* C21 amended: the handler calls processEvent exactly once for every
\* message whose value parses to something other than null, and not at all
\* for a message without value, with a value that is not JSON or with the
\* JSON literal null; it resolves in every case, also when processEvent
\* throws.
ConsumedOncePerNonNull ==
    [][\A value \in MessageValues, fault \in EnqueueFaults :
          ConsumeMessage(value, T0, fault) =>
              /\ response'.kind = "resolved"
              /\ (value = NoValue \/ value \in {"invalid json", "", "null"})
                     => NotCalled
              /\ value \in {"5", "{}", QuestionText} => CalledOnce(value)
              /\ (fault # "none" /\ value \in {"5", "{}", QuestionText}) =>
                     response'.calls[1].result = "error"]_vars

\* C21 witness: a message has been queued by the handler after a message
\* without value, one that could not be processed and one for which
\* processEvent threw.
ConsumedAfterBadMessages ==
    /\ response.kind = "resolved"
    /\ Len(response.calls) = 1
    /\ response.calls[1].result = "receipt"
    /\ response.calls[1].userId = "user123"
    /\ {"Received message with no value",
        "Error processing dualmatch:question message",
        "Failed to queue event for processing"} \subseteq logged

\* The items of the user that are in the buffer or in a batch in flight and
\* have no document in the store yet.
WaitingOf(userId) ==
    {i \in Ids(inMemoryQueue) \cup {f.item.id.n : f \in inflight} :
        /\ DocsOf(i) = {}
        /\ \E item \in Range(inMemoryQueue) \cup {f.item : f \in inflight} :
               item.id.n = i /\ ExtractUserId(item.event.eventData) = userId}

EntryQueued(c) == \E e \in eventQueueModel : e._id = calls[c].eventId

====
